---- MODULE Spec2Model ----
(***************************************************************************)
(* A model of scripts/utilities.py of moodRL: the log-likelihood extractor *)
(* (_extract_log_lik), the WAIC engine (WAIC), the two-model comparison    *)
(* (model_comparison) and the rejection sampler (shifted_wald_rng).        *)
(*                                                                         *)
(* Numbers.  Log-likelihoods are integers.  The real numbers the code      *)
(* computes from them (log, exp, mean, variance, square root) are kept in  *)
(* an exact normal form, so that two results are equal in the model        *)
(* exactly when the normal forms agree.  IEEE-754 rounding, overflow and   *)
(* underflow of np.exp are not modelled.  The one non-real outcome that    *)
(* is modelled is the variance of an empty array, which numpy returns as   *)
(* NaN.                                                                    *)
(*                                                                         *)
(* numpy.  np.array on a list of arrays of different lengths raises        *)
(* ValueError (numpy >= 1.24); np.concatenate of zero-dimensional values   *)
(* raises ValueError.                                                      *)
(***************************************************************************)
EXTENDS Integers, Sequences, FiniteSets, TLC

VARIABLES
    stan_fits,  \* the persisted fits: model name -> fit (a dict of tensors)
    pc,         \* "idle" before a call, then "returned" or "raised"
    call,       \* the call made: function name and arguments
    ret,        \* the value returned (None before / without a return)
    err,        \* the exception raised (None before / without a raise)
    ops,        \* the array operations performed by the call, in order
    crit,       \* the matrices given to the criterion and the arrays it gave back
    rng         \* the state of shifted_wald_rng's loop

vars == <<stan_fits, pc, call, ret, err, ops, crit, rng>>

(***************************************************************************)
(* Bounds of the model.                                                    *)
(***************************************************************************)
\* The largest number of cells (samples x subjects x blocks x trials) of
\* the tensors of one fit, Y and M together.
MaxCells == 5
\* The same, for the fits given to _extract_log_lik alone.
MaxExtractCells == 4
\* The same, for each fit of a store that holds two fits.
MaxPairCells == 2
\* The largest `size` asked of shifted_wald_rng.
MaxSize == 3
\* The largest Wald variate drawn, in units of the model.
MaxDraw == 3

\* The log-likelihood values of the tensors.
LLVals == {-1, 0, 1}
\* The log-likelihood values of the fits given to model_comparison.
CmpVals == {-1, 0}
\* The log-likelihood values of the matrices given to WAIC alone.
WaicVals == {-2, -1, 0, 1}
\* The model names on disk or asked for.
Names == {"a", "b"}
\* The channel selectors tried: the three the code knows and one it does not.
Methods == {"y", "m", "both", "bogus"}
\* The metric selectors tried.
Metrics == {"waic", "loo", "bogus"}
\* The keys of a fit.
Keys == {"Y_log_lik", "M_log_lik"}

None == [kind |-> "None"]
\* Python's False, the value of a channel that was not requested.
PyFalse == [kind |-> "bool"]
NdArray(rows) == [kind |-> "ndarray", rows |-> rows]
Exception(type, at) == [kind |-> "exception", type |-> type, at |-> at]

Max(x, y) == IF x >= y THEN x ELSE y

(***************************************************************************)
(* Tensors and fits.                                                       *)
(***************************************************************************)
\* The shapes (n_samp, n_subj, n_block, n_trial) within a budget of cells.
\* A fit holds at least one posterior draw; a tensor may hold no trial.
Shapes(n_samp, budget) ==
    {sh \in {n_samp} \X (1..budget) \X (1..budget) \X (0..budget) :
        sh[1] * sh[2] * sh[3] * Max(sh[4], 1) <= budget}

Weight(sh) == sh[1] * sh[2] * sh[3] * Max(sh[4], 1)

Index(sh) == (1..sh[1]) \X (1..sh[2]) \X (1..sh[3]) \X (1..sh[4])

\* The 4-D tensors of a shape over a set of values.
Tensors(sh, vals) == [shape : {sh}, data : [Index(sh) -> vals]]

\* The fits of n_samp draws whose tensors hold at most `budget` cells: a
\* dict from some of the keys to tensors with the same number of draws.
FitsOf(n_samp, budget, vals) ==
    LET T == [b \in 0..budget |->
                    UNION {Tensors(sh, vals) : sh \in Shapes(n_samp, b)}]
        both == UNION {{[k \in Keys |-> IF k = "Y_log_lik" THEN y ELSE m] :
                            m \in T[budget - Weight(y.shape)]} : y \in T[budget]}
        one(key) == {[k \in {key} |-> t] : t \in T[budget]}
    IN  both \cup one("Y_log_lik") \cup one("M_log_lik")

Fits(budget, vals) == UNION {FitsOf(n, budget, vals) : n \in 1..budget}

(***************************************************************************)
(* Matrices: a sequence of n_samp rows, each a sequence of observations.   *)
(***************************************************************************)
NRows(m) == Len(m)
NCols(m) == Len(m[1])
Col(m, j) == [r \in 1..NRows(m) |-> m[r][j]]

RECURSIVE SumSeq(_)
SumSeq(s) == IF s = <<>> THEN 0 ELSE s[1] + SumSeq(Tail(s))

\* load_fit: the fit pickled under the model's name, or the error of open().
load_fit(store, model) ==
    IF model \in DOMAIN store
    THEN [ok |-> TRUE, fit |-> store[model]]
    ELSE [ok |-> FALSE, err |-> Exception("FileNotFoundError", "load_fit")]

\* ndarray.reshape(n_samp, n_subj*n_block*n_trial): row-major, so that the
\* observation index runs over subjects, then blocks, then trials.
Reshape(t) ==
    LET n_samp == t.shape[1]
        n_block == t.shape[3]
        n_trial == t.shape[4]
        n_obs == t.shape[2] * n_block * n_trial
    IN  [r \in 1..n_samp |->
            [j \in 1..n_obs |->
                t.data[<<r,
                         ((j - 1) \div (n_block * n_trial)) + 1,
                         (((j - 1) \div n_trial) % n_block) + 1,
                         ((j - 1) % n_trial) + 1>>]]]

\* A slip: missing only where every sample's value is zero.
Missing_AllZero(m) == [j \in 1..NCols(m) |-> \A r \in 1..NRows(m) : m[r][j] = 0]

\* np.where(np.sum(Y_log_lik, axis=0), False, True): missing where the
\* column's sum over the samples is zero.
Missing(m) == [j \in 1..NCols(m) |-> SumSeq(Col(m, j)) = 0]

\* Y_log_lik[:, ~missing]: the columns that are not missing, in order.
DropMissing(m, missing) ==
    LET kept == SelectSeq([j \in 1..NCols(m) |-> j], LAMBDA j : ~missing[j])
    IN  [r \in 1..NRows(m) |-> [p \in 1..Len(kept) |-> m[r][kept[p]]]]

\* The "y" branch of _extract_log_lik.
ExtractY(fit) ==
    LET Y_log_lik == Reshape(fit["Y_log_lik"])
    IN  NdArray(DropMissing(Y_log_lik, Missing(Y_log_lik)))

\* The "m" branch of _extract_log_lik.
ExtractM(fit) == NdArray(Reshape(fit["M_log_lik"]))

\* A slip: the "y" branch taken whatever the selector.
WantY_Always(method) == TRUE

\* `if method in ['y','both']`.
WantY(method) == method \in {"y", "both"}

\* A slip: "both" forgotten in the "m" branch's test.
WantM_OnlyM(method) == method = "m"

\* `if method in ['m', 'both']`.
WantM(method) == method \in {"m", "both"}

\* _extract_log_lik(model_name, method): what it returns or raises, and the
\* array operations it performed on the way.
ExtractLogLik(store, model_name, method) ==
    LET loaded == load_fit(store, model_name)
        wantY == WantY(method)
        wantM == WantM(method)
        opsY == IF wantY THEN <<"reshape_y", "mask_y">> ELSE <<>>
        opsM == IF wantM THEN <<"reshape_m">> ELSE <<>>
    IN  IF ~loaded.ok
        THEN [ok |-> FALSE, err |-> loaded.err, ops |-> <<>>]
        ELSE IF wantY /\ "Y_log_lik" \notin DOMAIN loaded.fit
        THEN [ok |-> FALSE, err |-> Exception("KeyError", "Y_log_lik"),
              ops |-> <<"load_fit">>]
        ELSE IF wantM /\ "M_log_lik" \notin DOMAIN loaded.fit
        THEN [ok |-> FALSE, err |-> Exception("KeyError", "M_log_lik"),
              ops |-> <<"load_fit">> \o opsY]
        ELSE [ok |-> TRUE,
              val |-> <<IF wantY THEN ExtractY(loaded.fit) ELSE PyFalse,
                        IF wantM THEN ExtractM(loaded.fit) ELSE PyFalse>>,
              ops |-> <<"load_fit">> \o opsY \o opsM]

(***************************************************************************)
(* Exact real numbers.  A number is n/d + SUM ln[a] * log(a) over atoms a, *)
(* with n/d in lowest terms; an atom is a mean of exponentials             *)
(* (SUM terms[k] * e^k) / den that is not 1.  NaN is a value of its own.   *)
(***************************************************************************)
RECURSIVE GCD(_, _)
GCD(x, y) == IF y = 0 THEN x ELSE GCD(y, x % y)

Abs(x) == IF x < 0 THEN -x ELSE x

NoLn == [a \in {} |-> 0]

Real(n, d, ln) ==
    LET g == GCD(Abs(n), d)
    IN  [kind |-> "real", n |-> n \div g, d |-> d \div g, ln |-> ln]

Int2Real(k) == Real(k, 1, NoLn)

NaN == [kind |-> "nan"]

LnCoef(ln, a) == IF a \in DOMAIN ln THEN ln[a] ELSE 0

Add(x, y) ==
    LET sum(a) == LnCoef(x.ln, a) + LnCoef(y.ln, a)
    IN  Real(x.n * y.d + y.n * x.d, x.d * y.d,
             [a \in {b \in DOMAIN x.ln \cup DOMAIN y.ln : sum(b) # 0} |-> sum(a)])

Scale(c, x) ==
    Real(c * x.n, x.d, [a \in {b \in DOMAIN x.ln : c # 0} |-> c * x.ln[a]])

Sub(x, y) == Add(x, Scale(-1, y))

RECURSIVE SumReal(_)
SumReal(s) == IF s = <<>> THEN Int2Real(0) ELSE Add(s[1], SumReal(Tail(s)))

Range(s) == {s[i] : i \in DOMAIN s}

SetMin(S) == CHOOSE x \in S : \A y \in S : x <= y

RECURSIVE SetGCD(_)
SetGCD(S) == IF S = {} THEN 0
             ELSE LET x == CHOOSE y \in S : TRUE IN GCD(x, SetGCD(S \ {x}))

\* np.exp(col).mean(): the mean of the exponentials of a column.
MeanExp(col) ==
    [terms |-> [k \in Range(col) |-> Cardinality({s \in DOMAIN col : col[s] = k})],
     den |-> Len(col)]

\* np.log of a mean of exponentials: log((SUM c_k e^k) / den)
\*   = kmin + log((SUM c_k e^(k - kmin)) / den), the fraction in lowest terms.
Log(p) ==
    LET kmin == SetMin(DOMAIN p.terms)
        g == SetGCD(Range(p.terms) \cup {p.den})
        atom == [terms |-> [k \in {x - kmin : x \in DOMAIN p.terms} |->
                                p.terms[k + kmin] \div g],
                 den |-> p.den \div g]
        one == [terms |-> [k \in {0} |-> 1], den |-> 1]
    IN  Real(kmin, 1, IF atom = one THEN NoLn ELSE [a \in {atom} |-> 1])

\* np.var of a column of integers: (S * SUM x^2 - (SUM x)^2) / S^2.
Var(col) ==
    LET S == Len(col)
        sq == [s \in DOMAIN col |-> col[s] * col[s]]
    IN  Real(S * SumSeq(sq) - SumSeq(col) * SumSeq(col), S * S, NoLn)

\* lppd = np.log( np.exp(log_lik).mean(axis=0) )
Lppd(log_lik) == [j \in 1..NCols(log_lik) |-> Log(MeanExp(Col(log_lik, j)))]

\* pwaic = np.var(log_lik, axis=0)
Pwaic(log_lik) == [j \in 1..NCols(log_lik) |-> Var(Col(log_lik, j))]

\* A slip: the mean and the variance taken along the observations
\* (axis=1), one entry per sample.
WAIC_WrongAxis(log_lik) ==
    LET col1(r) == [j \in 1..NCols(log_lik) |-> <<log_lik[r][j]>>]
    IN  IF NCols(log_lik) = 0 THEN [r \in 1..NRows(log_lik) |-> NaN]
        ELSE [r \in 1..NRows(log_lik) |->
                 Sub(Log(MeanExp(Col(col1(r), 1))), Var(Col(col1(r), 1)))]

\* WAIC(log_lik): lppd - pwaic, one entry per observation.
WAIC(log_lik) ==
    [j \in 1..NCols(log_lik) |-> Sub(Lppd(log_lik)[j], Pwaic(log_lik)[j])]

\* psisloo(log_lik)[1]: the pointwise leave-one-out elpd, one opaque real
\* per observation, decided by that observation's column.
Psisloo(log_lik) ==
    [j \in 1..NCols(log_lik) |->
        Real(0, 1, [a \in {[loo |-> Col(log_lik, j)]} |-> 1])]

(***************************************************************************)
(* model_comparison.                                                       *)
(***************************************************************************)
\* A slip: the two channels concatenated in the other order.
Concatenate_MFirst(yll, mll) ==
    IF yll.kind = "ndarray" /\ mll.kind = "ndarray"
    THEN [ok |-> TRUE, op |-> "concatenate",
          val |-> [r \in 1..NRows(yll.rows) |-> mll.rows[r] \o yll.rows[r]]]
    ELSE [ok |-> FALSE, op |-> "concatenate",
          err |-> Exception("ValueError", "concatenate")]

\* np.concatenate([yll, mll], axis=-1), or its error on 0-d values.
Concatenate(yll, mll) ==
    IF yll.kind = "ndarray" /\ mll.kind = "ndarray"
    THEN [ok |-> TRUE, op |-> "concatenate",
          val |-> [r \in 1..NRows(yll.rows) |-> yll.rows[r] \o mll.rows[r]]]
    ELSE [ok |-> FALSE, op |-> "concatenate",
          err |-> Exception("ValueError", "concatenate")]

\* "Define included log-likelihood": the matrix the criterion is given.
SelectLogLik(on, yll, mll) ==
    IF on = "y" THEN [ok |-> TRUE, op |-> "copy", val |-> yll.rows]
    ELSE IF on = "m" THEN [ok |-> TRUE, op |-> "copy", val |-> mll.rows]
    ELSE Concatenate(yll, mll)

\* "Compute metric": the elpd array, or the error of an unknown metric.
ComputeMetric(metric, log_lik) ==
    IF metric = "waic" THEN [ok |-> TRUE, op |-> "WAIC", val |-> WAIC(log_lik)]
    ELSE IF metric = "loo" THEN [ok |-> TRUE, op |-> "psisloo", val |-> Psisloo(log_lik)]
    ELSE [ok |-> FALSE, err |-> Exception("ValueError", "metric")]

\* One pass of the main loop for one model: extract, select, compute.
LoopBody(store, model_name, metric, on) ==
    LET ex == ExtractLogLik(store, model_name, on)
    IN  IF ~ex.ok THEN [ok |-> FALSE, err |-> ex.err, ops |-> ex.ops]
        ELSE LET sel == SelectLogLik(on, ex.val[1], ex.val[2])
             IN  IF ~sel.ok
                 THEN [ok |-> FALSE, err |-> sel.err, ops |-> ex.ops \o <<sel.op>>]
                 ELSE LET m == ComputeMetric(metric, sel.val)
                      IN  IF ~m.ok
                          THEN [ok |-> FALSE, err |-> m.err, ops |-> ex.ops \o <<sel.op>>]
                          ELSE [ok |-> TRUE, log_lik |-> sel.val, arr |-> m.val,
                                ops |-> ex.ops \o <<sel.op, m.op>>]

\* np.var of an array of reals: NaN of an empty array, 0 of a constant one,
\* and otherwise the positive real that the array decides.
VarReal(s) ==
    IF Len(s) = 0 THEN NaN
    ELSE IF \A i \in DOMAIN s : s[i] = s[1] THEN Int2Real(0)
    ELSE [kind |-> "var", of |-> s]

\* np.sqrt( n * v ).
SqrtTimes(n, v) ==
    IF v.kind = "nan" THEN NaN
    ELSE IF v.kind = "real" THEN Int2Real(0)
    ELSE [kind |-> "sqrt", n |-> n, of |-> v]

\* A slip: the two arrays cut to the shorter one instead of refused.
StackElppd_Truncating(arr1, arr2) ==
    LET n == IF Len(arr1) <= Len(arr2) THEN Len(arr1) ELSE Len(arr2)
    IN  [ok |-> TRUE, val |-> <<SubSeq(arr1, 1, n), SubSeq(arr2, 1, n)>>]

\* elppd = -2 * np.array(elppd): the two arrays as one 2 x n array, or the
\* error of np.array on arrays of different lengths.
StackElppd(arr1, arr2) ==
    IF Len(arr1) # Len(arr2)
    THEN [ok |-> FALSE, err |-> Exception("ValueError", "np.array")]
    ELSE [ok |-> TRUE,
          val |-> <<[j \in DOMAIN arr1 |-> Scale(-2, arr1[j])],
                    [j \in DOMAIN arr2 |-> Scale(-2, arr2[j])]>>]

\* A slip: the two rows added instead of subtracted.
PairedDiff_Sum(elppd) ==
    [j \in DOMAIN elppd[1] |-> Add(elppd[2][j], elppd[1][j])]

\* np.diff(elppd, axis=0): the second row minus the first.
PairedDiff(elppd) ==
    [j \in DOMAIN elppd[1] |-> Sub(elppd[2][j], elppd[1][j])]

\* "Perform model comparison": the triple (m1, m2, se), or the error of
\* np.array.
Compare(arr1, arr2) ==
    LET stacked == StackElppd(arr1, arr2)
    IN  IF ~stacked.ok THEN stacked
        ELSE LET elppd == stacked.val
             IN  [ok |-> TRUE,
                  val |-> <<SumReal(elppd[1]), SumReal(elppd[2]),
                            SqrtTimes(Len(elppd[1]), VarReal(PairedDiff(elppd)))>>]

\* model_comparison(a, b, metric, on): what it returns or raises, the array
\* operations it performed, and what it gave to and got from the criterion.
ModelComparison(store, a, b, metric, on) ==
    LET first == LoopBody(store, a, metric, on)
    IN  IF ~first.ok
        THEN [ok |-> FALSE, err |-> first.err, ops |-> first.ops, crit |-> <<>>]
        ELSE LET second == LoopBody(store, b, metric, on)
                 crit1 == <<[log_lik |-> first.log_lik, arr |-> first.arr]>>
             IN  IF ~second.ok
                 THEN [ok |-> FALSE, err |-> second.err,
                       ops |-> first.ops \o second.ops, crit |-> crit1]
                 ELSE LET cmp == Compare(first.arr, second.arr)
                          crit2 == crit1 \o <<[log_lik |-> second.log_lik,
                                               arr |-> second.arr]>>
                      IN  IF ~cmp.ok
                          THEN [ok |-> FALSE, err |-> cmp.err,
                                ops |-> first.ops \o second.ops, crit |-> crit2]
                          ELSE [ok |-> TRUE, val |-> cmp.val,
                                ops |-> first.ops \o second.ops, crit |-> crit2]

(***************************************************************************)
(* The state machine.                                                      *)
(***************************************************************************)
RngIdle == [pc |-> "idle"]

\* The stores of one fit, under model name "a", and the empty store.
OneFitStores == {[n \in {"a"} |-> f] : f \in Fits(MaxExtractCells, LLVals)} \cup {<<>>}

\* The stores of one fit for model_comparison.
OneCmpStores == {[n \in {"a"} |-> f] : f \in Fits(MaxCells, CmpVals)}

\* The stores of two fits, and those where one or both are not on disk.
PairStores ==
    LET F == Fits(MaxPairCells, CmpVals)
    IN  {<<>>} \cup UNION {{[n \in {x} |-> f] : f \in F} : x \in Names}
               \cup {[n \in Names |-> IF n = "a" THEN p[1] ELSE p[2]] : p \in F \X F}

Start ==
    /\ pc = "idle"
    /\ call = None
    /\ ret = None
    /\ err = None
    /\ ops = <<>>
    /\ crit = <<>>
    /\ rng = RngIdle

Finish(out) ==
    /\ pc' = IF out.ok THEN "returned" ELSE "raised"
    /\ ret' = IF out.ok THEN out.val ELSE None
    /\ err' = IF out.ok THEN None ELSE out.err
    /\ ops' = out.ops

\* A call of _extract_log_lik.
CallExtract(model_name, method) ==
    /\ pc = "idle"
    /\ Finish(ExtractLogLik(stan_fits, model_name, method))
    /\ call' = [fn |-> "_extract_log_lik", model_name |-> model_name, method |-> method]
    /\ UNCHANGED <<stan_fits, crit, rng>>

\* A call of model_comparison.
CallModelComparison(a, b, metric, on) ==
    /\ pc = "idle"
    /\ LET out == ModelComparison(stan_fits, a, b, metric, on)
       IN  Finish(out) /\ crit' = out.crit
    /\ call' = [fn |-> "model_comparison", a |-> a, b |-> b, metric |-> metric, on |-> on]
    /\ UNCHANGED <<stan_fits, rng>>

\* _extract_log_lik on every fit of one store.
InitExtract == stan_fits \in OneFitStores /\ Start

NextExtract == \E method \in Methods : CallExtract("a", method)

SpecExtract == InitExtract /\ [][NextExtract]_vars

\* model_comparison of a model with itself.
InitSelf == stan_fits \in OneCmpStores /\ Start

NextSelf ==
    \E metric \in Metrics, on \in Methods : CallModelComparison("a", "a", metric, on)

SpecSelf == InitSelf /\ [][NextSelf]_vars

\* The two entry points on a store of up to two fits.
Init == stan_fits \in PairStores /\ Start

Next ==
    \/ \E model_name \in Names, method \in Methods : CallExtract(model_name, method)
    \/ \E a \in Names, b \in Names, metric \in Metrics, on \in Methods :
           CallModelComparison(a, b, metric, on)

Spec == Init /\ [][Next]_vars

(***************************************************************************)
(* WAIC as a function of its matrix.                                       *)
(***************************************************************************)
\* The (samples x observations) matrices of at most MaxCells entries.
WaicMatrices ==
    UNION {[1..dim[1] -> [1..dim[2] -> WaicVals]] :
              dim \in {d \in (1..MaxCells) \X (0..MaxCells) : d[1] * d[2] <= MaxCells}}

InitWaic ==
    /\ stan_fits = <<>>
    /\ pc = "idle"
    /\ call \in [fn : {"WAIC"}, log_lik : WaicMatrices]
    /\ ret = None
    /\ err = None
    /\ ops = <<>>
    /\ crit = <<>>
    /\ rng = RngIdle

\* A call of WAIC on the matrix drawn.
CallWAIC ==
    /\ pc = "idle"
    /\ pc' = "returned"
    /\ ret' = WAIC(call.log_lik)
    /\ ops' = <<"WAIC">>
    /\ UNCHANGED <<stan_fits, call, err, crit, rng>>

NextWaic == CallWAIC

SpecWaic == InitWaic /\ [][NextWaic]_vars

(***************************************************************************)
(* shifted_wald_rng: the rejection loop.  theta, ub and the Wald variates  *)
(* are integers; a variate is at least 1, so a draw rt = theta + variate   *)
(* is above theta.  An ub above theta + MaxDraw rejects nothing, as        *)
(* ub = np.inf does.                                                       *)
(***************************************************************************)
Thetas == {0, 1}
Ubs == 0..(MaxDraw + 2)
Sizes == 0..MaxSize
Variates == 1..MaxDraw

\* A slip: a draw equal to ub accepted.
Accepts_OrEqual(rt, ub) == rt <= ub

\* `if rt < ub`.
Accepts(rt, ub) == rt < ub

\* The state after `RT = []`.
InitRng ==
    /\ stan_fits = <<>>
    /\ pc = "idle"
    /\ call = None
    /\ ret = None
    /\ err = None
    /\ ops = <<>>
    /\ crit = <<>>
    /\ rng \in [pc : {"loop"}, theta : Thetas, ub : Ubs, size : Sizes,
                RT : {<<>>}, rejected : {{}}]

\* One pass of the loop with a draw that is accepted.
RngAccept ==
    /\ rng.pc = "loop"
    /\ Len(rng.RT) < rng.size
    /\ \E w \in Variates :
           LET rt == rng.theta + w
           IN  /\ Accepts(rt, rng.ub)
               /\ rng' = [rng EXCEPT !.RT = Append(@, rt)]
    /\ UNCHANGED <<stan_fits, pc, call, ret, err, ops, crit>>

\* One pass of the loop with a draw that is rejected.
RngReject ==
    /\ rng.pc = "loop"
    /\ Len(rng.RT) < rng.size
    /\ \E w \in Variates :
           LET rt == rng.theta + w
           IN  /\ ~Accepts(rt, rng.ub)
               /\ rng' = [rng EXCEPT !.rejected = @ \cup {rt}]
    /\ UNCHANGED <<stan_fits, pc, call, ret, err, ops, crit>>

\* The loop's exit: `return np.array(RT)`.
RngReturn ==
    /\ rng.pc = "loop"
    /\ ~(Len(rng.RT) < rng.size)
    /\ rng' = [rng EXCEPT !.pc = "done"]
    /\ pc' = "returned"
    /\ ret' = rng.RT
    /\ UNCHANGED <<stan_fits, call, err, ops, crit>>

NextRng == RngAccept \/ RngReject \/ RngReturn

SpecRng == InitRng /\ [][NextRng]_vars

\* The loop runs on while it can, and a draw below ub that stays possible
\* is drawn in the end.
FairSpecRng == SpecRng /\ WF_vars(RngAccept) /\ WF_vars(RngReturn)

(***************************************************************************)
(* Properties.  They speak of a tensor's observations by their             *)
(* (subject, block, trial) index, in lexicographic order.                  *)
(***************************************************************************)
Called(fn) == pc # "idle" /\ call # None /\ call.fn = fn
Returned(fn) == pc = "returned" /\ call # None /\ call.fn = fn
Raised(fn) == pc = "raised" /\ call # None /\ call.fn = fn

Obs(t) == (1..t.shape[2]) \X (1..t.shape[3]) \X (1..t.shape[4])
Samples(t) == 1..t.shape[1]
At(t, r, o) == t.data[<<r, o[1], o[2], o[3]>>]
ObsSum(t, o) == SumSeq([r \in Samples(t) |-> At(t, r, o)])
LexLE(x, y) ==
    \/ x[1] < y[1]
    \/ x[1] = y[1] /\ x[2] < y[2]
    \/ x[1] = y[1] /\ x[2] = y[2] /\ x[3] <= y[3]
\* The place of observation o among the observations S, counted from 1.
Rank(S, o) == Cardinality({x \in S : LexLE(x, o)})
ZeroSum(t) == {o \in Obs(t) : ObsSum(t, o) = 0}
Retained(t) == Obs(t) \ ZeroSum(t)
AllZero(t, o) == \A r \in Samples(t) : At(t, r, o) = 0

\* rows holds exactly the observations S of tensor t, in order, from
\* column `from` + 1 on.
HoldsAt(rows, t, S, from) ==
    \A r \in Samples(t) : \A o \in S : rows[r][from + Rank(S, o)] = At(t, r, o)

\* C2: _extract_log_lik drops an observation from the "y" matrix if and
\* only if its values sum to zero over the samples: the matrix holds the
\* other observations, in order, and one column fewer per zero-sum
\* observation; the "m" matrix holds every observation of its tensor.
C2_MaskIffZeroSum ==
    Returned("_extract_log_lik") =>
        LET fit == stan_fits[call.model_name]
        IN  /\ call.method \in {"y", "both"} =>
                  LET t == fit["Y_log_lik"]
                      y == ret[1].rows
                  IN  /\ Len(y) = t.shape[1]
                      /\ \A r \in Samples(t) :
                             Len(y[r]) = Cardinality(Obs(t)) - Cardinality(ZeroSum(t))
                      /\ HoldsAt(y, t, Retained(t), 0)
            /\ call.method \in {"m", "both"} =>
                  LET t == fit["M_log_lik"]
                      m == ret[2].rows
                  IN  /\ Len(m) = t.shape[1]
                      /\ \A r \in Samples(t) : Len(m[r]) = Cardinality(Obs(t))
                      /\ HoldsAt(m, t, Obs(t), 0)

\* C2's case: both channels extracted; the Y tensor has an observation
\* that is 0 in every sample, one whose values cancel, and one that is
\* kept; the M tensor has an observation that is 0 in every sample.
C2_Witness ==
    /\ Returned("_extract_log_lik")
    /\ call.method = "both"
    /\ LET y == stan_fits["a"]["Y_log_lik"]
           m == stan_fits["a"]["M_log_lik"]
       IN  /\ \E o \in Obs(y) : AllZero(y, o)
           /\ Retained(y) # {}
           /\ \E o \in Obs(m) : AllZero(m, o)
           /\ Len(ret[2].rows[1]) = Cardinality(Obs(m))

\* C2's second case: an observation whose values are not all 0 but sum
\* to 0 over the samples is dropped too.
C2_CancelWitness ==
    /\ Returned("_extract_log_lik")
    /\ call.method = "y"
    /\ LET y == stan_fits["a"]["Y_log_lik"]
       IN  /\ \E o \in ZeroSum(y) : ~AllZero(y, o)
           /\ Len(ret[1].rows[1]) < Cardinality(Obs(y))

\* C4: the pair _extract_log_lik returns holds a matrix exactly for the
\* channels requested and False for the others.
C4_RequestedChannels ==
    Returned("_extract_log_lik") =>
        /\ Len(ret) = 2
        /\ ret[1].kind = (IF call.method \in {"y", "both"} THEN "ndarray" ELSE "bool")
        /\ ret[2].kind = (IF call.method \in {"m", "both"} THEN "ndarray" ELSE "bool")
        /\ \A i \in 1..2 : ret[i].kind = "bool" => ret[i] = PyFalse

\* C4's case: with "m" the first component is False, the second a matrix.
C4_Witness ==
    /\ Returned("_extract_log_lik")
    /\ call.method = "m"
    /\ ret[1] = PyFalse
    /\ ret[2].kind = "ndarray"
    /\ Len(ret[2].rows[1]) >= 1

KnownMethods == {"y", "m", "both"}
KnownMetrics == {"waic", "loo"}

\* The first key that _extract_log_lik asks of a fit and does not find,
\* or "none".
MissingKey(fit, method) ==
    IF method \in {"y", "both"} /\ "Y_log_lik" \notin DOMAIN fit THEN "Y_log_lik"
    ELSE IF method \in {"m", "both"} /\ "M_log_lik" \notin DOMAIN fit THEN "M_log_lik"
    ELSE "none"

OnDisk(model) == model \in DOMAIN stan_fits

\* Model `model` is on disk with every key that selector `on` asks for.
Extractable(model, on) == OnDisk(model) /\ MissingKey(stan_fits[model], on) = "none"

\* The KeyError that _extract_log_lik raises for `model`, was raised.
RaisedKeyErrorOf(model, on) ==
    /\ pc = "raised"
    /\ err = Exception("KeyError", MissingKey(stan_fits[model], on))
    /\ ret = None

\* C1 (as claimed): when model_comparison raises the error of an unknown
\* metric, no array operation was performed before it.
C1_BadMetricRaisesFirst ==
    (Raised("model_comparison") /\ call.metric \notin KnownMetrics
        /\ err = Exception("ValueError", "metric")) => ops = <<>>

\* C1 (as claimed), the other half: an unknown metric always ends in the
\* invalid-argument error.
C1_BadMetricAlwaysInvalidArgument ==
    (Called("model_comparison") /\ call.metric \notin KnownMetrics) =>
        (pc = "raised" /\ err = Exception("ValueError", "metric"))

\* C5: model_comparison returns only a triple computed from two elpd
\* arrays of equal length; when the two arrays differ in length it raises
\* the shape error of np.array and returns nothing; a call that raises
\* returns nothing.
C5_TripleOrError ==
    Called("model_comparison") =>
        /\ pc \in {"returned", "raised"}
        /\ pc = "returned" =>
              /\ err = None
              /\ Len(ret) = 3
              /\ Len(crit) = 2
              /\ Len(crit[1].arr) = Len(crit[2].arr)
        /\ pc = "raised" => ret = None /\ err.kind = "exception"
        /\ (Len(crit) = 2 /\ Len(crit[1].arr) # Len(crit[2].arr)) =>
              (pc = "raised" /\ err = Exception("ValueError", "np.array"))

\* C5's case: the "y" masks of the two models keep different numbers of
\* observations and the call raises the shape error.
C5_Witness ==
    /\ Raised("model_comparison")
    /\ call.on = "y"
    /\ call.a # call.b
    /\ Len(crit) = 2
    /\ Len(crit[1].arr) # Len(crit[2].arr)
    /\ Cardinality(Obs(stan_fits[call.a]["Y_log_lik"]))
           = Cardinality(Obs(stan_fits[call.b]["Y_log_lik"]))
    /\ err = Exception("ValueError", "np.array")

\* C6 (as claimed): a channel selector other than "y", "m" and "both",
\* given with a model that is on disk, is rejected with the error kind of
\* an unknown metric (ValueError) and nothing is returned.
C6_BogusSelectorRejected ==
    /\ (Called("_extract_log_lik") /\ call.method \notin KnownMethods
            /\ OnDisk(call.model_name)) =>
           (pc = "raised" /\ err.type = "ValueError" /\ ret = None)
    /\ (Called("model_comparison") /\ call.on \notin KnownMethods
            /\ OnDisk(call.a) /\ OnDisk(call.b)) =>
           (pc = "raised" /\ err.type = "ValueError" /\ ret = None)

\* C7: _extract_log_lik on a model that is on disk raises KeyError if and
\* only if the fit lacks the key of a requested channel, and otherwise
\* returns; model_comparison raises the same KeyError, and returns
\* nothing, when the first model's fit lacks a requested key, or when the
\* first model's pass succeeds and the second model's fit lacks one; and
\* it raises no KeyError otherwise.
C7_MissingKey ==
    /\ (Called("_extract_log_lik") /\ OnDisk(call.model_name)) =>
           IF MissingKey(stan_fits[call.model_name], call.method) # "none"
           THEN RaisedKeyErrorOf(call.model_name, call.method)
           ELSE pc = "returned" /\ err = None
    /\ (Called("_extract_log_lik") /\ ~OnDisk(call.model_name)) =>
           (pc = "raised" /\ err.type # "KeyError")
    /\ Called("model_comparison") =>
           LET firstFails == OnDisk(call.a) /\ ~Extractable(call.a, call.on)
               secondFails == /\ Extractable(call.a, call.on)
                              /\ call.on \in KnownMethods
                              /\ call.metric \in KnownMetrics
                              /\ OnDisk(call.b)
                              /\ ~Extractable(call.b, call.on)
           IN  /\ firstFails => RaisedKeyErrorOf(call.a, call.on)
               /\ secondFails => RaisedKeyErrorOf(call.b, call.on)
               /\ (pc = "raised" /\ err.type = "KeyError") => (firstFails \/ secondFails)

\* C7's case: the second model's fit lacks M_log_lik, asked for by
\* "both", after the first model's pass succeeded: the KeyError of the
\* extractor comes out of model_comparison.
C7_Witness ==
    /\ Raised("model_comparison")
    /\ call.on = "both"
    /\ Len(crit) = 1
    /\ OnDisk(call.b)
    /\ DOMAIN stan_fits[call.b] = {"Y_log_lik"}
    /\ err = Exception("KeyError", "M_log_lik")

\* C7's other case: a fit that lacks only M_log_lik is extracted with "y".
C7_LacksOnlyM ==
    /\ Returned("_extract_log_lik")
    /\ call.method = "y"
    /\ DOMAIN stan_fits[call.model_name] = {"Y_log_lik"}

\* The number of observations that selector "both" compares for a model:
\* the retained "y" observations and all the "m" observations.
BothCount(model) ==
    Cardinality(Retained(stan_fits[model]["Y_log_lik"]))
        + Cardinality(Obs(stan_fits[model]["M_log_lik"]))

SelfCompared ==
    /\ Called("model_comparison")
    /\ call.a = call.b
    /\ call.metric = "waic"
    /\ call.on = "both"
    /\ Extractable(call.a, "both")

Pointwise(metric, col) ==
    LET one == [r \in DOMAIN col |-> <<col[r]>>]
    IN  IF metric = "waic" THEN WAIC(one)[1] ELSE Psisloo(one)[1]

ConstantColumns(m) == \A r \in DOMAIN m : m[r] = m[1]

CanAccept == \E w \in Variates : rng.theta + w < rng.ub

\* C10: the loop of shifted_wald_rng returns, for size >= 1, exactly
\* `size` values, each strictly below ub and none of them a rejected
\* draw; RT grows only at its end, by a draw below ub; the loop never
\* returns when no draw can fall below ub (as when ub <= theta); and
\* while draws below ub keep occurring it does return.
C10_RejectionLoop ==
    /\ [](rng.pc = "done" =>
             /\ ret = rng.RT
             /\ rng.size >= 1 =>
                    /\ Len(rng.RT) = rng.size
                    /\ CanAccept
                    /\ \A i \in DOMAIN rng.RT :
                           rng.RT[i] < rng.ub /\ rng.RT[i] \notin rng.rejected)
    /\ []((rng.size >= 1 /\ rng.ub <= rng.theta) => rng.pc # "done")
    /\ [][rng.pc = "loop" =>
             \/ rng'.RT = rng.RT
             \/ /\ Len(rng'.RT) = Len(rng.RT) + 1
                /\ SubSeq(rng'.RT, 1, Len(rng.RT)) = rng.RT
                /\ rng'.RT[Len(rng'.RT)] < rng.ub]_vars
    /\ ((rng.pc = "loop" /\ (CanAccept \/ rng.size = 0)) ~> rng.pc = "done")

\* C10's case: a return of two or more values that differ, after a draw
\* was rejected.
C10_Witness ==
    /\ rng.pc = "done"
    /\ rng.size >= 2
    /\ rng.rejected # {}
    /\ rng.RT[1] # rng.RT[2]

====
